---- MODULE Spec2Model ----
(***************************************************************************)
(* Snippetbox request handlers (cmd/web/handlers.go).                      *)
(*                                                                         *)
(* One client talks to the application.  Every request is one atomic step: *)
(* the session middleware loads the session named by the client's cookie,  *)
(* the handler runs, and the middleware commits the session if the handler *)
(* modified it.  Strings that the handlers inspect character by character  *)
(* (form fields, the :id route parameter) are sequences of one-character   *)
(* strings; messages, page names and paths are plain strings.              *)
(***************************************************************************)
EXTENDS Integers, Sequences, FiniteSets, TLC

VARIABLES store, cookie, nextTok, users, snippets, resp

vars == <<store, cookie, nextTok, users, snippets, resp>>

\* ------------------------------------------------------------------ bounds
\* Session tokens that can ever be issued.
MaxTok == 3
\* Rows the snippets table can hold.
MaxSnippets == 1

\* ------------------------------------------------------- program constants
TitleMaxChars == 100
PasswordMinChars == 8
StatusOK == 200
StatusSeeOther == 303
StatusBadRequest == 400
StatusNotFound == 404
StatusUnprocessableEntity == 422
StatusInternalServerError == 500

\* ------------------------------------------------------------------ strings
Rep(c, n) == [i \in 1..n |-> c]

Digits == {"0", "1", "2", "3", "4", "5", "6", "7", "8", "9"}
Letters == {"a", "b", "c", "n", "p", "q", "t", "x"}
WhiteSpace == {" "}

DigitVal(c) ==
  CASE c = "0" -> 0 [] c = "1" -> 1 [] c = "2" -> 2 [] c = "3" -> 3
    [] c = "4" -> 4 [] c = "5" -> 5 [] c = "6" -> 6 [] c = "7" -> 7
    [] c = "8" -> 8 [] c = "9" -> 9

RECURSIVE DecimalValue(_)
DecimalValue(s) ==
  IF s = <<>> THEN 0
  ELSE 10 * DecimalValue(SubSeq(s, 1, Len(s) - 1)) + DigitVal(s[Len(s)])

\* strconv.Atoi: an optional sign followed by one or more decimal digits;
\* anything else is a syntax error.  (Range errors need more digits than the
\* route parameters drawn here have.)
Atoi(s) ==
  LET signed == Len(s) > 0 /\ s[1] \in {"+", "-"}
      body   == IF signed THEN Tail(s) ELSE s
      neg    == signed /\ s[1] = "-"
  IN IF body = <<>> \/ \E i \in 1..Len(body) : body[i] \notin Digits
     THEN [err |-> TRUE, val |-> 0]
     ELSE [err |-> FALSE,
           val |-> IF neg THEN 0 - DecimalValue(body) ELSE DecimalValue(body)]

\* ---------------------------------------------------------------- validator
\* strings.TrimSpace(value) != ""
NotBlank(value) == \E i \in 1..Len(value) : value[i] \notin WhiteSpace
\* utf8.RuneCountInString(value) <= n
MaxChars(value, n) == Len(value) <= n
\* utf8.RuneCountInString(value) >= n
MinChars(value, n) == Len(value) >= n
PermittedValue(value, permitted) == value \in permitted
Equal(a, b) == a = b

\* validator.Matches(value, validator.EmailRX): a non-empty local part, one
\* "@", and a domain of dot-separated labels that begin and end with a
\* letter or digit.
LocalChars == Letters \cup Digits \cup {".", "-", "_", "+"}
DomainChars == Letters \cup Digits \cup {".", "-"}
MatchesEmailRX(value) ==
  \E at \in 2..(Len(value) - 1) :
     /\ value[at] = "@"
     /\ \A i \in 1..(at - 1) : value[i] \in LocalChars
     /\ \A i \in (at + 1)..Len(value) : value[i] \in DomainChars
     /\ value[at + 1] \in Letters \cup Digits
     /\ value[Len(value)] \in Letters \cup Digits
     /\ \A i \in (at + 1)..Len(value) :
          value[i] = "." => /\ value[i - 1] \in Letters \cup Digits
                            /\ value[i + 1] \in Letters \cup Digits

NoErrors == [k \in {} |-> ""]
NewValidator == [FieldErrors |-> NoErrors, NonFieldErrors |-> <<>>]

AddFieldError(v, key, message) ==
  IF key \in DOMAIN v.FieldErrors THEN v
  ELSE [v EXCEPT !.FieldErrors = (key :> message) @@ v.FieldErrors]

AddNonFieldError(v, message) ==
  [v EXCEPT !.NonFieldErrors = Append(@, message)]

CheckField(v, ok, key, message) ==
  IF ok THEN v ELSE AddFieldError(v, key, message)

Valid(v) == DOMAIN v.FieldErrors = {} /\ v.NonFieldErrors = <<>>

\* ------------------------------------------------------------ session store
EmptyData == [authenticatedUserID |-> 0, flash |-> "", targetURL |-> ""]

\* The request's session context, as the session middleware loads it: the
\* session stored under the cookie's token, or a fresh one with no token.
Load ==
  IF cookie \in DOMAIN store
  THEN [store |-> store, token |-> cookie, data |-> store[cookie],
        modified |-> FALSE, issued |-> FALSE, log |-> <<>>]
  ELSE [store |-> store, token |-> 0, data |-> EmptyData,
        modified |-> FALSE, issued |-> FALSE, log |-> <<>>]

Logged(ctx, op, key) ==
  Append(ctx.log, [op |-> op, key |-> key, token |-> ctx.token])

Put(ctx, key, val) ==
  [ctx EXCEPT !.data[key] = val, !.modified = TRUE,
              !.log = Logged(ctx, "Put", key)]

GetString(ctx, key) == ctx.data[key]
GetInt(ctx, key) == ctx.data[key]

Remove(ctx, key) ==
  IF ctx.data[key] = EmptyData[key]
  THEN [ctx EXCEPT !.log = Logged(ctx, "Remove", key)]
  ELSE [ctx EXCEPT !.data[key] = EmptyData[key], !.modified = TRUE,
                   !.log = Logged(ctx, "Remove", key)]

\* PopString: the value, and the context with the key deleted.
PopString(ctx, key) ==
  IF ctx.data[key] = ""
  THEN ctx
  ELSE [ctx EXCEPT !.data[key] = "", !.modified = TRUE,
                   !.log = Logged(ctx, "Pop", key)]

\* RenewToken: the old token's entry leaves the store, the session gets a
\* fresh token and keeps its data.
RenewToken(ctx) ==
  [ctx EXCEPT !.store = [t \in (DOMAIN ctx.store) \ {ctx.token} |-> ctx.store[t]],
              !.token = nextTok, !.issued = TRUE, !.modified = TRUE,
              !.log = Logged(ctx, "RenewToken", "")]

\* The middleware's commit when the response is written: a modified session
\* is saved under its token (a fresh one if it has none yet).
Save(ctx) ==
  IF ~ctx.modified THEN ctx
  ELSE LET tok == IF ctx.token = 0 THEN nextTok ELSE ctx.token
       IN [ctx EXCEPT !.token = tok,
                      !.issued = ctx.issued \/ ctx.token = 0,
                      !.store = (tok :> ctx.data) @@ ctx.store]

\* --------------------------------------------------------------- data access
Hash(password) == <<"bcrypt", password>>

UserIDs(us) == 1..Len(us)

UsersInsert(us, name, email, password, dbErr) ==
  IF dbErr THEN [err |-> "other", users |-> us]
  ELSE IF \E i \in UserIDs(us) : us[i].email = email
  THEN [err |-> "ErrDuplicateEmail", users |-> us]
  ELSE [err |-> "",
        users |-> Append(us, [name |-> name, email |-> email,
                              hashedPassword |-> Hash(password)])]

Authenticate(us, email, password, dbErr) ==
  IF dbErr THEN [err |-> "other", id |-> 0]
  ELSE IF \E i \in UserIDs(us) :
            us[i].email = email /\ us[i].hashedPassword = Hash(password)
  THEN [err |-> "",
        id |-> CHOOSE i \in UserIDs(us) :
                 us[i].email = email /\ us[i].hashedPassword = Hash(password)]
  ELSE [err |-> "ErrInvalidCredentials", id |-> 0]

UsersGet(us, id, dbErr) ==
  IF dbErr THEN "other"
  ELSE IF id \in UserIDs(us) THEN "" ELSE "ErrNoRecord"

PasswordUpdate(us, id, current, new, dbErr) ==
  IF dbErr \/ id \notin UserIDs(us) THEN [err |-> "other", users |-> us]
  ELSE IF us[id].hashedPassword # Hash(current)
  THEN [err |-> "ErrInvalidCredentials", users |-> us]
  ELSE [err |-> "", users |-> [us EXCEPT ![id].hashedPassword = Hash(new)]]

SnippetIDs(sn) == 1..Len(sn)

SnippetsInsert(sn, title, content, expires, dbErr) ==
  IF dbErr THEN [err |-> "other", id |-> 0, snippets |-> sn]
  ELSE [err |-> "", id |-> Len(sn) + 1,
        snippets |-> Append(sn, [title |-> title, content |-> content,
                                 expires |-> expires])]

SnippetsGet(sn, id, dbErr) ==
  IF dbErr THEN "other"
  ELSE IF id \in SnippetIDs(sn) THEN "" ELSE "ErrNoRecord"

SnippetsLatest(sn, dbErr) == IF dbErr THEN "other" ELSE ""

\* ------------------------------------------------------------------ helpers
NoForm == [none |-> TRUE]

BaseResp(h) ==
  [handler |-> h, status |-> 0, page |-> "", location |-> "", locID |-> 0,
   flash |-> "", calls |-> <<>>, log |-> <<>>, form |-> NoForm,
   errors |-> NewValidator, decoded |-> FALSE, raw |-> <<>>, authID |-> 0,
   dbErr |-> FALSE, renewErr |-> FALSE,
   pre |-> [cookie |-> 0, data |-> EmptyData, users |-> <<>>, snippets |-> <<>>]]

\* newTemplateData: the envelope every rendered page gets; it pops the flash
\* message out of the session.
newTemplateData(ctx) ==
  [ctx |-> PopString(ctx, "flash"), Flash |-> GetString(ctx, "flash")]

render(r, status, page, td) ==
  [r EXCEPT !.status = status, !.page = page, !.flash = td.Flash]

serverError(r) == [r EXCEPT !.status = StatusInternalServerError]
clientError(r, status) == [r EXCEPT !.status = status]
notFound(r) == clientError(r, StatusNotFound)
Redirect(r, path, id) ==
  [r EXCEPT !.status = StatusSeeOther, !.location = path, !.locID = id]

\* The end of a request: the session middleware commits the session, the
\* cookie follows the session's token, and the response goes out.
Respond(ctx, us, sn, r) ==
  LET c == Save(ctx) IN
  /\ c.issued => nextTok <= MaxTok
  /\ Len(sn) <= MaxSnippets
  /\ store' = c.store
  /\ cookie' = IF ctx.modified THEN c.token ELSE cookie
  /\ nextTok' = IF c.issued THEN nextTok + 1 ELSE nextTok
  /\ users' = us
  /\ snippets' = sn
  /\ resp' = [r EXCEPT !.log = ctx.log,
                       !.pre = [cookie |-> cookie, data |-> Load.data,
                                users |-> users, snippets |-> snippets]]

\* ------------------------------------------------------------------- inputs
P7 == Rep("p", 7)
P8 == Rep("p", 8)
Q8 == Rep("q", 8)
S8 == Rep(" ", 8)
EmailA == <<"a", "@", "x">>
EmailB == <<"b", "@", "x", ".", "c">>

\* Form values for the runs that exercise one form's validation in full.
Titles == {<<>>, <<" ">>, <<"t">>, Rep("t", TitleMaxChars),
           Rep("t", TitleMaxChars + 1), Rep(" ", TitleMaxChars + 1)}
Contents == {<<>>, <<" ">>, <<"c">>}
Expireses == {0, 1, 2, 7, 365, 366}
CurrentPasswords == {<<>>, <<" ">>, P8, Q8}
NewPasswords == {<<>>, S8, P7, P8, Q8}
RawIDs == {<<>>, <<"0">>, <<"-", "1">>, <<"a", "b", "c">>, <<"1">>, <<"2">>,
           <<"+", "1">>, <<"0", "1">>, <<"1", "a">>, <<"1", "0">>, <<"-">>}

\* Form values for the runs that exercise the handlers together.
FewTitles == {<<>>, <<"t">>}
FewContents == {<<"c">>}
FewExpireses == {7}
FewNames == {<<"n">>}
FewEmails == {<<"a">>, EmailA, EmailB}
FewPasswords == {<<>>, P8, Q8}
FewRawIDs == {<<"0">>, <<"1">>}
ProtectedPaths == {"/account/view"}

\* ----------------------------------------------------------------- handlers
\* The response under construction once the form is decoded and checked.
Decoded(h, form, v) ==
  [BaseResp(h) EXCEPT !.form = form, !.errors = v, !.decoded = TRUE]

\* A data-access call made by the handler, and whether the datastore failed.
Called(r, call, dbErr) == [r EXCEPT !.calls = Append(@, call), !.dbErr = dbErr]

ping ==
  Respond(Load, users, snippets, [BaseResp("ping") EXCEPT !.status = StatusOK])

home ==
  \E dbErr \in BOOLEAN :
    LET ctx == Load
        r   == Called(BaseResp("home"), "snippets.Latest", dbErr)
        td  == newTemplateData(ctx)
    IN IF SnippetsLatest(snippets, dbErr) # ""
       THEN Respond(ctx, users, snippets, serverError(r))
       ELSE Respond(td.ctx, users, snippets, render(r, StatusOK, "home.html", td))

\* Faulty variant: the guard lets id 0 through to the lookup.
snippetViewBadIDZero(id) == id.err \/ id.val < 0

snippetViewBadID(id) == id.err \/ id.val < 1

snippetViewGot(ctx, r, id, err) ==
  LET td == newTemplateData(ctx)
  IN IF err = "ErrNoRecord"
     THEN Respond(ctx, users, snippets, notFound(r))
     ELSE IF err # ""
     THEN Respond(ctx, users, snippets, serverError(r))
     ELSE Respond(td.ctx, users, snippets,
                  render([r EXCEPT !.locID = id], StatusOK, "view.html", td))

snippetView(R) ==
  \E raw \in R :
    LET ctx == Load
        r0  == [BaseResp("snippetView") EXCEPT !.raw = raw]
        id  == Atoi(raw)
    IN IF snippetViewBadID(id)
       THEN Respond(ctx, users, snippets, notFound(r0))
       ELSE \E dbErr \in BOOLEAN :
              snippetViewGot(ctx, Called(r0, "snippets.Get", dbErr), id.val,
                             SnippetsGet(snippets, id.val, dbErr))

\* The handlers that only show a page: snippetCreate, userSignup, userLogin,
\* about, accountPasswordUpdate.
showPage(h, page, form) ==
  LET ctx == Load
      td  == newTemplateData(ctx)
  IN Respond(td.ctx, users, snippets,
             render([BaseResp(h) EXCEPT !.form = form], StatusOK, page, td))

snippetCreate ==
  showPage("snippetCreate", "create.html",
           [Title |-> <<>>, Content |-> <<>>, Expires |-> 365])

userSignup ==
  showPage("userSignup", "signup.html",
           [Name |-> <<>>, Email |-> <<>>, Password |-> <<>>])

userLogin ==
  showPage("userLogin", "login.html", [Email |-> <<>>, Password |-> <<>>])

about == showPage("about", "about.html", NoForm)

accountPasswordUpdate ==
  showPage("accountPasswordUpdate", "password.html",
           [CurrentPassword |-> <<>>, NewPassword |-> <<>>,
            ConfirmPassword |-> <<>>])

\* data := app.newTemplateData(r); data.Form = form; render 422
redisplayForm(ctx, r, page) ==
  LET td == newTemplateData(ctx)
  IN Respond(td.ctx, users, snippets,
             render(r, StatusUnprocessableEntity, page, td))

\* err := app.decodePostForm(r, &form); if err != nil { clientError 400 }
decodeFailed(h) ==
  Respond(Load, users, snippets, clientError(BaseResp(h), StatusBadRequest))

\* Faulty variant: the title's length is not checked.
snippetCreateChecksNoMax(form) ==
  LET v1 == CheckField(NewValidator, NotBlank(form.Title), "title",
                       "This field cannot be blank")
      v3 == CheckField(v1, NotBlank(form.Content), "content",
                       "This field cannot be blank")
  IN CheckField(v3, PermittedValue(form.Expires, {1, 7, 365}), "expires",
                "This field must equal 1, 7 or 365")

snippetCreateChecks(form) ==
  LET v1 == CheckField(NewValidator, NotBlank(form.Title), "title",
                       "This field cannot be blank")
      v2 == CheckField(v1, MaxChars(form.Title, TitleMaxChars), "title",
                       "This field cannot be more than 100 characters long")
      v3 == CheckField(v2, NotBlank(form.Content), "content",
                       "This field cannot be blank")
  IN CheckField(v3, PermittedValue(form.Expires, {1, 7, 365}), "expires",
                "This field must equal 1, 7 or 365")

snippetCreateInvalid(ctx, r) == redisplayForm(ctx, r, "create.html")

\* Faulty variant: the confirmation is never put in the session.
snippetCreateInsertedNoFlash(ctx, r, ins) ==
  IF ins.err # ""
  THEN Respond(ctx, users, snippets, serverError(r))
  ELSE Respond(ctx, users, ins.snippets, Redirect(r, "/snippet/view/", ins.id))

snippetCreateInserted(ctx, r, ins) ==
  IF ins.err # ""
  THEN Respond(ctx, users, snippets, serverError(r))
  ELSE Respond(Put(ctx, "flash", "Snippet successfully created!"),
               users, ins.snippets, Redirect(r, "/snippet/view/", ins.id))

snippetCreatePost(T, C, E) ==
  \/ decodeFailed("snippetCreatePost")
  \/ \E title \in T, content \in C, expires \in E :
       LET ctx  == Load
           form == [Title |-> title, Content |-> content, Expires |-> expires]
           v    == snippetCreateChecks(form)
           r    == Decoded("snippetCreatePost", form, v)
       IN IF ~Valid(v)
          THEN snippetCreateInvalid(ctx, r)
          ELSE \E dbErr \in BOOLEAN :
                 snippetCreateInserted(ctx, Called(r, "snippets.Insert", dbErr),
                   SnippetsInsert(snippets, title, content, expires, dbErr))

userSignupChecks(form) ==
  LET v1 == CheckField(NewValidator, NotBlank(form.Name), "name",
                       "This field cannot be blank")
      v2 == CheckField(v1, NotBlank(form.Email), "email",
                       "This field cannot be blank")
      v3 == CheckField(v2, MatchesEmailRX(form.Email), "email",
                       "This field must be a valid email address")
      v4 == CheckField(v3, NotBlank(form.Password), "password",
                       "This field cannot be blank")
  IN CheckField(v4, MinChars(form.Password, PasswordMinChars), "password",
                "This field must be at least 8 characters long")

\* Faulty variant: the return after the 422 page is missing, so the handler goes on
\* to insert the user.
userSignupInvalidNoReturn(ctx, r) ==
  LET ins == UsersInsert(users, r.form.Name, r.form.Email, r.form.Password, FALSE)
  IN IF ins.err # ""
     THEN redisplayForm(ctx, Called(r, "users.Insert", FALSE), "signup.html")
     ELSE Respond(Put(ctx, "flash", "Your signup was successful. Please log in."),
                  ins.users, snippets,
                  render(Called(r, "users.Insert", FALSE),
                         StatusUnprocessableEntity, "signup.html",
                         newTemplateData(ctx)))

userSignupInvalid(ctx, r) == redisplayForm(ctx, r, "signup.html")

\* Faulty variant: a duplicate email is not told apart from success.
userSignupInsertedIgnoreDuplicate(ctx, r, ins) ==
  IF ins.err # "" /\ ins.err # "ErrDuplicateEmail"
  THEN Respond(ctx, users, snippets, serverError(r))
  ELSE Respond(Put(ctx, "flash", "Your signup was successful. Please log in."),
               ins.users, snippets, Redirect(r, "/user/login", 0))

userSignupInserted(ctx, r, ins) ==
  IF ins.err = "ErrDuplicateEmail"
  THEN redisplayForm(ctx,
         [r EXCEPT !.errors = AddFieldError(@, "email",
                                            "Email address is already in use")],
         "signup.html")
  ELSE IF ins.err # ""
  THEN Respond(ctx, users, snippets, serverError(r))
  ELSE Respond(Put(ctx, "flash", "Your signup was successful. Please log in."),
               ins.users, snippets, Redirect(r, "/user/login", 0))

userSignupPost(N, M, P) ==
  \/ decodeFailed("userSignupPost")
  \/ \E name \in N, email \in M, password \in P :
       LET ctx  == Load
           form == [Name |-> name, Email |-> email, Password |-> password]
           v    == userSignupChecks(form)
           r    == Decoded("userSignupPost", form, v)
       IN IF ~Valid(v)
          THEN userSignupInvalid(ctx, r)
          ELSE \E dbErr \in BOOLEAN :
                 userSignupInserted(ctx, Called(r, "users.Insert", dbErr),
                   UsersInsert(users, name, email, password, dbErr))

userLoginChecks(form) ==
  LET v1 == CheckField(NewValidator, NotBlank(form.Email), "email",
                       "This field cannot be blank")
      v2 == CheckField(v1, MatchesEmailRX(form.Email), "email",
                       "This field must be a valid email address")
  IN CheckField(v2, NotBlank(form.Password), "password",
                "This field cannot be blank")

userLoginInvalid(ctx, r) == redisplayForm(ctx, r, "login.html")

\* Faulty variant: the user id is stored before the token is renewed.
userLoginRenewedLate(ctx, r, id) ==
  LET c1 == Put(ctx, "authenticatedUserID", id)
      c2 == RenewToken(c1)
      targetURL == GetString(c2, "targetURL")
  IN IF targetURL # ""
     THEN Respond(c2, users, snippets, Redirect(r, targetURL, 0))
     ELSE Respond(c2, users, snippets, Redirect(r, "/snippet/create", 0))

\* Lines 237-255: the credentials were accepted and belong to user id.
userLoginRenewed(ctx, r, id) ==
  LET c1 == RenewToken(ctx)
      c2 == Put(c1, "authenticatedUserID", id)
      targetURL == GetString(c2, "targetURL")
  IN IF targetURL # ""
     THEN Respond(c2, users, snippets, Redirect(r, targetURL, 0))
     ELSE Respond(c2, users, snippets, Redirect(r, "/snippet/create", 0))

\* Faulty variant: the return after a failed renewal is missing, so the user id is
\* stored under the old token.
userLoginAuthenticatedNoReturn(ctx, r, auth) ==
  IF auth.err = "ErrInvalidCredentials"
  THEN redisplayForm(ctx,
         [r EXCEPT !.errors = AddNonFieldError(@,
                                 "Email or password is incorrect")],
         "login.html")
  ELSE IF auth.err # ""
  THEN Respond(ctx, users, snippets, serverError(r))
  ELSE \/ Respond(Put(ctx, "authenticatedUserID", auth.id), users, snippets,
                  serverError([r EXCEPT !.renewErr = TRUE]))
       \/ userLoginRenewed(ctx, r, auth.id)

\* Lines 225-256: the outcome of users.Authenticate decides.
userLoginAuthenticated(ctx, r, auth) ==
  IF auth.err = "ErrInvalidCredentials"
  THEN redisplayForm(ctx,
         [r EXCEPT !.errors = AddNonFieldError(@,
                                 "Email or password is incorrect")],
         "login.html")
  ELSE IF auth.err # ""
  THEN Respond(ctx, users, snippets, serverError(r))
  ELSE \/ Respond(ctx, users, snippets,
                  serverError([r EXCEPT !.renewErr = TRUE]))
       \/ userLoginRenewed(ctx, r, auth.id)

userLoginPost(M, P) ==
  \/ decodeFailed("userLoginPost")
  \/ \E email \in M, password \in P :
       LET ctx  == Load
           form == [Email |-> email, Password |-> password]
           v    == userLoginChecks(form)
           r    == Decoded("userLoginPost", form, v)
       IN IF ~Valid(v)
          THEN userLoginInvalid(ctx, r)
          ELSE \E dbErr \in BOOLEAN :
                 LET auth == Authenticate(users, email, password, dbErr)
                 IN userLoginAuthenticated(ctx,
                      [Called(r, "users.Authenticate", dbErr)
                         EXCEPT !.authID = auth.id],
                      auth)

\* Faulty variant: the user id is left in the renewed session.
userLogoutRenewedNoRemove(ctx, r) ==
  LET c1 == RenewToken(ctx)
      c3 == Put(c1, "flash", "You've been logged out successfully!")
  IN Respond(c3, users, snippets, Redirect(r, "/", 0))

userLogoutRenewed(ctx, r) ==
  LET c1 == RenewToken(ctx)
      c2 == Remove(c1, "authenticatedUserID")
      c3 == Put(c2, "flash", "You've been logged out successfully!")
  IN Respond(c3, users, snippets, Redirect(r, "/", 0))

userLogoutPost ==
  LET ctx == Load
      r   == BaseResp("userLogoutPost")
  IN \/ Respond(ctx, users, snippets, serverError([r EXCEPT !.renewErr = TRUE]))
     \/ userLogoutRenewed(ctx, r)

accountView ==
  \E dbErr \in BOOLEAN :
    LET ctx    == Load
        userID == GetInt(ctx, "authenticatedUserID")
        r      == Called(BaseResp("accountView"), "users.Get", dbErr)
        err    == UsersGet(users, userID, dbErr)
        td     == newTemplateData(ctx)
    IN IF err = "ErrNoRecord"
       THEN Respond(ctx, users, snippets, Redirect(r, "/user/login", 0))
       ELSE IF err # ""
       THEN Respond(ctx, users, snippets, serverError(r))
       ELSE Respond(td.ctx, users, snippets,
                    render(r, StatusOK, "account.html", td))

\* Faulty variant: the confirmation is not compared with the new password.
passwordUpdateChecksNoEqual(form) ==
  LET v1 == CheckField(NewValidator, NotBlank(form.CurrentPassword),
                       "currentPassword", "This field cannot be blank")
      v2 == CheckField(v1, NotBlank(form.NewPassword), "newPassword",
                       "This field cannot be blank")
      v3 == CheckField(v2, NotBlank(form.ConfirmPassword),
                       "newPasswordConfirmation", "This field cannot be blank")
  IN CheckField(v3, MinChars(form.NewPassword, PasswordMinChars),
                "newPassword",
                "This field must be at least 8 characters long")

passwordUpdateChecks(form) ==
  LET v1 == CheckField(NewValidator, NotBlank(form.CurrentPassword),
                       "currentPassword", "This field cannot be blank")
      v2 == CheckField(v1, NotBlank(form.NewPassword), "newPassword",
                       "This field cannot be blank")
      v3 == CheckField(v2, NotBlank(form.ConfirmPassword),
                       "newPasswordConfirmation", "This field cannot be blank")
      v4 == CheckField(v3, MinChars(form.NewPassword, PasswordMinChars),
                       "newPassword",
                       "This field must be at least 8 characters long")
  IN CheckField(v4, Equal(form.NewPassword, form.ConfirmPassword),
                "newPasswordConfirmation", "Passwords do not match")

accountPasswordUpdateInvalid(ctx, r) == redisplayForm(ctx, r, "password.html")

accountPasswordUpdated(ctx, r, upd) ==
  IF upd.err = "ErrInvalidCredentials"
  THEN redisplayForm(ctx,
         [r EXCEPT !.errors = AddFieldError(@, "currentPassword",
                                            "Current password is incorrect")],
         "password.html")
  ELSE IF upd.err # ""
  THEN Respond(ctx, users, snippets, serverError(r))
  ELSE Respond(Put(ctx, "flash", "Your password has been updated successfully!"),
               upd.users, snippets, Redirect(r, "/account/view", 0))

accountPasswordUpdatePost(Cur, New, Conf) ==
  \/ decodeFailed("accountPasswordUpdatePost")
  \/ \E current \in Cur, new \in New, confirm \in Conf :
       LET ctx    == Load
           form   == [CurrentPassword |-> current, NewPassword |-> new,
                      ConfirmPassword |-> confirm]
           v      == passwordUpdateChecks(form)
           r      == Decoded("accountPasswordUpdatePost", form, v)
           userID == GetInt(ctx, "authenticatedUserID")
       IN IF ~Valid(v)
          THEN accountPasswordUpdateInvalid(ctx, r)
          ELSE \E dbErr \in BOOLEAN :
                 accountPasswordUpdated(ctx,
                   Called(r, "users.PasswordUpdate", dbErr),
                   PasswordUpdate(users, userID, current, new, dbErr))

\* The access-control middleware in front of the protected routes: a client
\* that is not logged in is sent to the login page, and the page it wanted
\* is remembered in the session.
requireAuthentication ==
  \E path \in ProtectedPaths :
    LET ctx == Load
        r   == BaseResp("requireAuthentication")
    IN /\ GetInt(ctx, "authenticatedUserID") = 0
       /\ Respond(Put(ctx, "targetURL", path), users, snippets,
                  Redirect(r, "/user/login", 0))

\* ------------------------------------------------------------ specification
Init ==
  /\ store = [t \in {} |-> EmptyData]
  /\ cookie = 0
  /\ nextTok = 1
  /\ users = <<>>
  /\ snippets = <<>>
  /\ resp = BaseResp("none")

\* All the handlers together, on a few form values each.
Next ==
  \/ ping
  \/ home
  \/ about
  \/ snippetView(FewRawIDs)
  \/ snippetCreate
  \/ snippetCreatePost(FewTitles, FewContents, FewExpireses)
  \/ userSignup
  \/ userSignupPost(FewNames, FewEmails, {P8})
  \/ userLogin
  \/ userLoginPost(FewEmails, FewPasswords)
  \/ userLogoutPost
  \/ accountView
  \/ accountPasswordUpdate
  \/ accountPasswordUpdatePost({P8, Q8}, {P8}, {P8, Q8})
  \/ requireAuthentication

Spec == Init /\ [][Next]_vars

\* The snippet form in full, alone.
NextSnippetForm == snippetCreatePost(Titles, Contents, Expireses)

SpecSnippetForm == Init /\ [][NextSnippetForm]_vars

\* The snippet pages: creating snippets and viewing them by id.
NextSnippetView ==
  \/ snippetCreatePost(FewTitles, FewContents, {1, 7})
  \/ snippetView(RawIDs)
  \/ home

SpecSnippetView == Init /\ [][NextSnippetView]_vars

\* The password form in full, for one user who signs up and logs in.
NextPasswordForm ==
  \/ userSignupPost(FewNames, {EmailA}, {P8})
  \/ userLoginPost({EmailA}, {P8, Q8})
  \/ accountPasswordUpdatePost(CurrentPasswords, NewPasswords, NewPasswords)

SpecPasswordForm == Init /\ [][NextPasswordForm]_vars

\* ------------------------------------------------------------------- claims
\* What the client's session holds now (nothing, if the cookie names none).
Session == Load.data

PostHandlers == {"snippetCreatePost", "userSignupPost", "userLoginPost",
                 "accountPasswordUpdatePost"}

FormPage(h) ==
  CASE h = "snippetCreatePost" -> "create.html"
    [] h = "userSignupPost" -> "signup.html"
    [] h = "userLoginPost" -> "login.html"
    [] h = "accountPasswordUpdatePost" -> "password.html"

\* The registered checks of the form the last request submitted.
RegisteredChecks ==
  CASE resp.handler = "snippetCreatePost" -> snippetCreateChecks(resp.form)
    [] resp.handler = "userSignupPost" -> userSignupChecks(resp.form)
    [] resp.handler = "userLoginPost" -> userLoginChecks(resp.form)
    [] resp.handler = "accountPasswordUpdatePost" -> passwordUpdateChecks(resp.form)

\* The last request was a form submission that decoded and failed a check.
InvalidSubmission ==
  /\ resp.handler \in PostHandlers
  /\ resp.decoded
  /\ ~Valid(RegisteredChecks)

SessionWrites == {"Put", "Remove", "RenewToken"}

HandlerWrote ==
  \E i \in 1..Len(resp.log) : resp.log[i].op \in SessionWrites

PutsKey(key) ==
  \E i \in 1..Len(resp.log) : resp.log[i].op = "Put" /\ resp.log[i].key = key

\* C1 as claimed: a form that fails a registered check is redisplayed with
\* 422, no data-access call is made, and the session is left as it was.
C1_InvalidLeavesSessionUntouched ==
  InvalidSubmission =>
    /\ resp.status = StatusUnprocessableEntity
    /\ resp.page = FormPage(resp.handler)
    /\ resp.calls = <<>>
    /\ Session = resp.pre.data

\* C1 as amended: a form that fails a registered check is redisplayed with
\* 422; no data-access call is made, the tables are unchanged, the handler
\* makes no Put, Remove or RenewToken, the cookie stays, and the only change
\* to the session is that the redisplayed page consumes a pending flash.
C1_InvalidRedisplayed ==
  InvalidSubmission =>
    /\ resp.status = StatusUnprocessableEntity
    /\ resp.page = FormPage(resp.handler)
    /\ resp.calls = <<>>
    /\ users = resp.pre.users
    /\ snippets = resp.pre.snippets
    /\ ~HandlerWrote
    /\ cookie = resp.pre.cookie
    /\ Session = [resp.pre.data EXCEPT !.flash = ""]
    /\ resp.flash = resp.pre.data.flash
    /\ resp.errors = RegisteredChecks

C1_Witness ==
  /\ InvalidSubmission
  /\ resp.handler = "userSignupPost"
  /\ resp.pre.data.flash # ""
  /\ resp.pre.data.authenticatedUserID # 0

LoginSucceeded == resp.handler = "userLoginPost" /\ resp.status = StatusSeeOther

\* C3 as claimed: a successful login redirects to the stashed destination and
\* clears it from the session, or redirects to the default page if none was
\* stashed.
C3_TargetClearedAfterLogin ==
  LoginSucceeded =>
    /\ resp.pre.data.targetURL # "" =>
         /\ resp.location = resp.pre.data.targetURL
         /\ Session.targetURL = ""
    /\ resp.pre.data.targetURL = "" => resp.location = "/snippet/create"

LoginRenewFailed == resp.handler = "userLoginPost" /\ resp.renewErr

\* C4: a successful login leaves no session under the old identifier, stores
\* the user id Authenticate returned for the submitted credentials under a new
\* identifier, and writes the id only after the renewal and never under the
\* old identifier; when the renewal fails the id is not written and the
\* response is 500.
C4_LoginRotatesBeforeStoring ==
  /\ LoginSucceeded =>
       /\ resp.pre.cookie \notin DOMAIN store
       /\ cookie # resp.pre.cookie
       /\ cookie \in DOMAIN store
       /\ resp.authID \in UserIDs(users)
       /\ users[resp.authID].email = resp.form.Email
       /\ users[resp.authID].hashedPassword = Hash(resp.form.Password)
       /\ store[cookie].authenticatedUserID = resp.authID
       /\ \E i \in 1..Len(resp.log) :
            /\ resp.log[i].op = "RenewToken"
            /\ \A j \in 1..Len(resp.log) :
                 (resp.log[j].op = "Put" /\ resp.log[j].key = "authenticatedUserID")
                   => j > i /\ resp.log[j].token = cookie
  /\ LoginRenewFailed =>
       /\ resp.status = StatusInternalServerError
       /\ ~PutsKey("authenticatedUserID")
       /\ cookie = resp.pre.cookie
       /\ Session = resp.pre.data

C4_Witness ==
  /\ LoginSucceeded
  /\ resp.pre.cookie # 0
  /\ resp.authID = 2
  /\ resp.pre.data.authenticatedUserID = 1

\* C5 as claimed: after every logout request the session under the client's
\* identifier holds no authenticatedUserID and the response is 303 to /.
C5_LogoutAlwaysClears ==
  resp.handler = "userLogoutPost" =>
    /\ Session.authenticatedUserID = 0
    /\ resp.status = StatusSeeOther
    /\ resp.location = "/"

\* C5 as amended: a logout whose token renewal succeeds answers 303 to /,
\* leaves no session under the old identifier and no authenticatedUserID in
\* the renewed session, the removal coming after the renewal; a logout whose
\* renewal fails answers 500 and makes no Remove or Put, so the
\* authenticatedUserID is not removed.
C5_LogoutClearsUnlessRenewFails ==
  resp.handler = "userLogoutPost" =>
    IF resp.renewErr
    THEN /\ resp.status = StatusInternalServerError
         /\ ~HandlerWrote
         /\ Session.authenticatedUserID = resp.pre.data.authenticatedUserID
    ELSE /\ resp.status = StatusSeeOther
         /\ resp.location = "/"
         /\ resp.pre.cookie \notin DOMAIN store
         /\ cookie \in DOMAIN store
         /\ store[cookie].authenticatedUserID = 0
         /\ store[cookie].targetURL = resp.pre.data.targetURL
         /\ \E i, j \in 1..Len(resp.log) :
              /\ i < j
              /\ resp.log[i].op = "RenewToken"
              /\ resp.log[j].op = "Remove"
              /\ resp.log[j].key = "authenticatedUserID"

C5_Witness ==
  /\ resp.handler = "userLogoutPost"
  /\ ~resp.renewErr
  /\ resp.pre.data.authenticatedUserID # 0

FlashCreated == "Snippet successfully created!"

\* C6: a successful snippet creation leaves its flash in the session; every
\* rendered page shows the flash the session held and removes it; a request
\* that renders no page and puts no flash leaves the flash as it was; so once
\* shown, the flash is absent until a new one is put.
C6_FlashShownOnce ==
  /\ (resp.handler = "snippetCreatePost" /\ resp.status = StatusSeeOther)
       => Session.flash = FlashCreated
  /\ resp.page # "" =>
       /\ resp.flash = resp.pre.data.flash
       /\ ~PutsKey("flash") => Session.flash = ""
  /\ (resp.page = "" /\ ~PutsKey("flash")) =>
       /\ resp.flash = ""
       /\ Session.flash = resp.pre.data.flash

C6_Witness ==
  /\ resp.handler = "snippetView"
  /\ resp.page = "view.html"
  /\ resp.flash = FlashCreated
  /\ Session.flash = ""

\* The last request was a signup that passed validation with an email that
\* was already on file, the datastore working.
DuplicateSignup ==
  /\ resp.handler = "userSignupPost"
  /\ resp.decoded
  /\ Valid(userSignupChecks(resp.form))
  /\ ~resp.dbErr
  /\ \E i \in UserIDs(resp.pre.users) : resp.pre.users[i].email = resp.form.Email

\* C7: a valid signup whose email is already on file answers 422 with a field
\* error on "email", leaves the users as they were, puts no flash and
\* redirects nowhere.
C7_DuplicateEmailRejected ==
  DuplicateSignup =>
    /\ resp.status = StatusUnprocessableEntity
    /\ resp.page = "signup.html"
    /\ "email" \in DOMAIN resp.errors.FieldErrors
    /\ resp.errors.FieldErrors["email"] = "Email address is already in use"
    /\ users = resp.pre.users
    /\ ~PutsKey("flash")
    /\ Session.flash = ""
    /\ resp.location = ""

C7_Witness ==
  /\ DuplicateSignup
  /\ Len(users) = 2
  /\ resp.form.Email = users[2].email

AuthChangingHandlers == {"userLoginPost", "userLogoutPost"}

\* C10: authenticatedUserID is put only by a login whose form was valid and
\* whose Authenticate call returned that id; a login answered 400, 422 or
\* 500 leaves the session's authenticatedUserID and the cookie as they were;
\* no handler other than login and logout changes authenticatedUserID.
C10_OnlyLoginSetsUser ==
  /\ PutsKey("authenticatedUserID") =>
       /\ resp.handler = "userLoginPost"
       /\ resp.decoded
       /\ Valid(userLoginChecks(resp.form))
       /\ resp.calls = <<"users.Authenticate">>
       /\ resp.authID \in UserIDs(users)
       /\ users[resp.authID].email = resp.form.Email
       /\ Session.authenticatedUserID = resp.authID
  /\ (resp.handler = "userLoginPost" /\ resp.status # StatusSeeOther) =>
       /\ resp.status \in {StatusBadRequest, StatusUnprocessableEntity,
                           StatusInternalServerError}
       /\ Session.authenticatedUserID = resp.pre.data.authenticatedUserID
       /\ cookie = resp.pre.cookie
  /\ resp.handler \notin AuthChangingHandlers =>
       Session.authenticatedUserID = resp.pre.data.authenticatedUserID
  /\ Session.authenticatedUserID \notin {0, resp.pre.data.authenticatedUserID}
       => PutsKey("authenticatedUserID")

C10_Witness ==
  /\ resp.handler = "userLoginPost"
  /\ resp.status = StatusInternalServerError
  /\ resp.renewErr
  /\ resp.pre.data.authenticatedUserID = 1
  /\ resp.authID = 2

\* What the snippet form must satisfy, stated on the submitted values.
SnippetFormAcceptable(form) ==
  /\ \E i \in 1..Len(form.Title) : form.Title[i] # " "
  /\ Len(form.Title) <= 100
  /\ \E i \in 1..Len(form.Content) : form.Content[i] # " "
  /\ form.Expires \in {1, 7, 365}

\* C2: a decoded snippet form goes on to snippets.Insert, instead of being
\* redisplayed with 422, exactly when its title is non-blank and at most 100
\* characters long, its content is non-blank and its expiry is 1, 7 or 365.
C2_SnippetFormValidIff ==
  (resp.handler = "snippetCreatePost" /\ resp.decoded) =>
    /\ resp.calls = <<"snippets.Insert">> <=> SnippetFormAcceptable(resp.form)
    /\ resp.status = StatusUnprocessableEntity <=> ~SnippetFormAcceptable(resp.form)
    /\ Valid(resp.errors) <=> SnippetFormAcceptable(resp.form)

C2_Witness ==
  /\ resp.handler = "snippetCreatePost"
  /\ resp.status = StatusSeeOther
  /\ Len(resp.form.Title) = 100
  /\ resp.form.Expires = 365
  /\ Len(snippets) = Len(resp.pre.snippets) + 1

\* What the password form must satisfy, stated on the submitted values.
PasswordFormAcceptable(form) ==
  /\ \E i \in 1..Len(form.CurrentPassword) : form.CurrentPassword[i] # " "
  /\ \E i \in 1..Len(form.NewPassword) : form.NewPassword[i] # " "
  /\ \E i \in 1..Len(form.ConfirmPassword) : form.ConfirmPassword[i] # " "
  /\ Len(form.NewPassword) >= 8
  /\ form.NewPassword = form.ConfirmPassword

\* C8: a decoded password form goes on to users.PasswordUpdate, instead of
\* being redisplayed with 422 by the validation, exactly when the current,
\* new and confirmation passwords are non-blank, the new password has at
\* least 8 characters and the confirmation equals it.
C8_PasswordFormValidIff ==
  (resp.handler = "accountPasswordUpdatePost" /\ resp.decoded) =>
    /\ resp.calls = <<"users.PasswordUpdate">> <=> PasswordFormAcceptable(resp.form)
    /\ ~PasswordFormAcceptable(resp.form) =>
         /\ resp.status = StatusUnprocessableEntity
         /\ resp.calls = <<>>
         /\ users = resp.pre.users

C8_Witness ==
  /\ resp.handler = "accountPasswordUpdatePost"
  /\ resp.status = StatusSeeOther
  /\ resp.form.CurrentPassword = P8
  /\ resp.form.NewPassword = Q8
  /\ users[1].hashedPassword = Hash(Q8)

\* The route parameters that are decimal integers, and their values.
NumericRawIDs ==
  {<<"0">>, <<"-", "1">>, <<"1">>, <<"2">>, <<"+", "1">>, <<"0", "1">>,
   <<"1", "0">>}

RouteID(raw) ==
  CASE raw = <<"0">> -> 0
    [] raw = <<"-", "1">> -> 0 - 1
    [] raw \in {<<"1">>, <<"+", "1">>, <<"0", "1">>} -> 1
    [] raw = <<"2">> -> 2
    [] raw = <<"1", "0">> -> 10

\* C9: viewing a snippet answers 404, without calling snippets.Get, when the
\* id is not a number or is below 1; 404 when the lookup reports no record;
\* 500 when the lookup fails otherwise; and 200 only for a positive id with a
\* stored snippet.
C9_SnippetViewStatus ==
  resp.handler = "snippetView" =>
    IF resp.raw \notin NumericRawIDs \/ RouteID(resp.raw) < 1
    THEN resp.status = StatusNotFound /\ resp.calls = <<>>
    ELSE /\ resp.calls = <<"snippets.Get">>
         /\ resp.status =
              IF resp.dbErr THEN StatusInternalServerError
              ELSE IF RouteID(resp.raw) \in SnippetIDs(snippets) THEN StatusOK
              ELSE StatusNotFound
         /\ resp.status = StatusOK =>
              resp.page = "view.html" /\ resp.locID = RouteID(resp.raw)

C9_Witness ==
  /\ resp.handler = "snippetView"
  /\ resp.status = StatusOK
  /\ resp.raw = <<"0", "1">>

====
